---- MODULE Spec2Model ----
(***************************************************************************)
(* A model of qiskit/aqua/utils/run_circuits.py: the execution wrapper     *)
(* run_qobj with its helpers _split_qobj_to_qobjs, _safe_submit_qobj,       *)
(* _safe_get_job_status and _combine_result_objects.                        *)
(*                                                                         *)
(* Python sequences are 0-based, TLA+ sequences 1-based: chunk i of the     *)
(* source is qobjs[i + 1] here.  Objects that the source compares or        *)
(* shares by reference carry an identity: a qobj has the field obj, a       *)
(* Result object is an index into heap.                                     *)
(***************************************************************************)
EXTENDS Integers, Sequences, FiniteSets, TLC

\* ---------------------------------------------------------------- bounds

\* Largest batch (number of experiments) of the run_qobj specification.
MaxItems == 3
\* Largest configured maximum chunk size (environment override or the
\* backend's max_experiments) of the run_qobj specification.
MaxChunk == 2
\* Largest batch and chunk size the chunker specification draws.
MaxSplitItems == 10
MaxSplitChunk == 5
\* Cap on the job handles the backend hands out in one run (run and
\* retrieve_job calls together).
MaxHandles == 5
\* Cap on the consecutive JobError failures of one status probe.
MaxStatusFail == 3
\* Largest queue position the backend reports.
MaxQueuePos == 1
\* Most results, and most records per result, the combiner specification draws.
MaxResults == 3
MaxRecords == 2

\* ------------------------------------------------------- program constants

\* sys.maxsize, the chunk size of a local backend; TLC's integers are 32 bits
\* wide, so the model uses the largest of them: it exceeds every batch size.
SysMaxSize == 2147483647
\* time.sleep(5) after a JobError of job.status()
ProbeDelay == 5

JobStatus == {"INITIALIZING", "QUEUED", "VALIDATING", "RUNNING", "CANCELLED", "DONE", "ERROR"}
JOB_FINAL_STATES == {"DONE", "CANCELLED", "ERROR"}

None == 0
NoError == [kind |-> "none", job_id |-> None, cause |-> "none"]
NoJob == [h |-> None, jid |-> None]

Min(a, b) == IF a < b THEN a ELSE b

\* ------------------------------------------------------------ pure helpers

\* int(np.ceil(m / k)) for m >= 0, k >= 1, computed without m + k (k may be
\* SysMaxSize).
CeilDiv(m, k) == IF m = 0 THEN 0 ELSE ((m - 1) \div k) + 1

\* Python's s[lo:hi] for 0 <= lo <= hi: the elements at 0-based positions
\* lo .. hi - 1 that exist.
Slice(s, lo, hi) ==
    LET a == Min(lo, Len(s))
        b == Min(hi, Len(s))
    IN [i \in 1..(b - a) |-> s[a + i]]

\* The experiments of the batch with m items: item i is the number i.
Experiments(m) == [i \in 1..m |-> i]

\* The input qobj: object 0 with qobj_id 0.
MkBatch(kind, m) == [kind |-> kind, obj |-> None, qobj_id |-> None, experiments |-> Experiments(m)]

\* ---- faulty variants of _split_qobj_to_qobjs, which C1, C2 and C3 must tell
\* from it
SplitDropsLastOfChunk(q, chunk_size, nobj, nuuid) ==
    LET num_chunks == CeilDiv(Len(q.experiments), chunk_size)
    IN IF num_chunks = 1
       THEN [raised |-> NoError, qobjs |-> <<q>>, nobj |-> nobj, nuuid |-> nuuid]
       ELSE IF q.kind = "QasmQobj"
            THEN [raised |-> NoError,
                  qobjs |-> [i \in 1..num_chunks |->
                               [kind |-> "QasmQobj", obj |-> nobj + 1 + i, qobj_id |-> nuuid + i,
                                experiments |-> Slice(q.experiments, (i - 1) * chunk_size,
                                                      i * chunk_size - 1)]],
                  nobj |-> nobj + 1 + num_chunks, nuuid |-> nuuid + num_chunks]
            ELSE [raised |-> [kind |-> "AquaError", job_id |-> None, cause |-> "Only support QasmQobj now."],
                  qobjs |-> <<>>, nobj |-> nobj, nuuid |-> nuuid]

SplitAlwaysCopies(q, chunk_size, nobj, nuuid) ==
    LET num_chunks == CeilDiv(Len(q.experiments), chunk_size)
    IN IF q.kind = "QasmQobj"
       THEN [raised |-> NoError,
             qobjs |-> [i \in 1..num_chunks |->
                          [kind |-> "QasmQobj", obj |-> nobj + 1 + i, qobj_id |-> nuuid + i,
                           experiments |-> Slice(q.experiments, (i - 1) * chunk_size,
                                                 i * chunk_size)]],
             nobj |-> nobj + 1 + num_chunks, nuuid |-> nuuid + num_chunks]
       ELSE IF num_chunks = 1
            THEN [raised |-> NoError, qobjs |-> <<q>>, nobj |-> nobj, nuuid |-> nuuid]
            ELSE [raised |-> [kind |-> "AquaError", job_id |-> None, cause |-> "Only support QasmQobj now."],
                  qobjs |-> <<>>, nobj |-> nobj, nuuid |-> nuuid]

SplitChecksKindFirst(q, chunk_size, nobj, nuuid) ==
    LET num_chunks == CeilDiv(Len(q.experiments), chunk_size)
    IN IF q.kind # "QasmQobj"
       THEN [raised |-> [kind |-> "AquaError", job_id |-> None, cause |-> "Only support QasmQobj now."],
             qobjs |-> <<>>, nobj |-> nobj, nuuid |-> nuuid]
       ELSE IF num_chunks = 1
            THEN [raised |-> NoError, qobjs |-> <<q>>, nobj |-> nobj, nuuid |-> nuuid]
            ELSE [raised |-> NoError,
                  qobjs |-> [i \in 1..num_chunks |->
                               [kind |-> "QasmQobj", obj |-> nobj + 1 + i, qobj_id |-> nuuid + i,
                                experiments |-> Slice(q.experiments, (i - 1) * chunk_size,
                                                      i * chunk_size)]],
                  nobj |-> nobj + 1 + num_chunks, nuuid |-> nuuid + num_chunks]

\* _split_qobj_to_qobjs(qobj, chunk_size).  nobj and nuuid count the objects
\* and the uuid4 identifiers made so far: the template is object nobj + 1,
\* chunk i its deep copy nobj + 1 + i with the fresh qobj_id nuuid + i.
\* Returns the chunks, or what was raised, and the counters afterwards.
SplitQobjToQobjs(q, chunk_size, nobj, nuuid) ==
    LET num_chunks == CeilDiv(Len(q.experiments), chunk_size)
    IN IF num_chunks = 1
       THEN [raised |-> NoError, qobjs |-> <<q>>, nobj |-> nobj, nuuid |-> nuuid]
       ELSE IF q.kind = "QasmQobj"
            THEN [raised |-> NoError,
                  qobjs |-> [i \in 1..num_chunks |->
                               [kind |-> "QasmQobj", obj |-> nobj + 1 + i, qobj_id |-> nuuid + i,
                                experiments |-> Slice(q.experiments, (i - 1) * chunk_size,
                                                      i * chunk_size)]],
                  nobj |-> nobj + 1 + num_chunks, nuuid |-> nuuid + num_chunks]
            ELSE [raised |-> [kind |-> "AquaError", job_id |-> None, cause |-> "Only support QasmQobj now."],
                  qobjs |-> <<>>, nobj |-> nobj, nuuid |-> nuuid]

\* The loop of _combine_result_objects: new_result.results.extend(results[idx].results)
\* for idx = from .. len(results) - 1, on the heap hp, new_result being object tgt.
RECURSIVE ExtendFrom(_, _, _, _)
ExtendFrom(hp, tgt, rs, from) ==
    IF from > Len(rs) THEN hp
    ELSE ExtendFrom([hp EXCEPT ![tgt].results = @ \o hp[rs[from]].results], tgt, rs, from + 1)

\* ---- faulty variants of _combine_result_objects, which C4 and C6 must tell
\* from it: no deep copy; the last result left out
CombineDropsLast(rs, hp) ==
    IF Len(rs) = 1 THEN [raised |-> NoError, ret |-> rs[1], heap |-> hp]
    ELSE IF Len(rs) = 0
         THEN [raised |-> [kind |-> "IndexError", job_id |-> None, cause |-> "results[0]"],
               ret |-> None, heap |-> hp]
         ELSE LET new == Len(hp) + 1
              IN [raised |-> NoError, ret |-> new,
                  heap |-> ExtendFrom(Append(hp, hp[rs[1]]), new, SubSeq(rs, 1, Len(rs) - 1), 2)]

CombineWithoutCopy(rs, hp) ==
    IF Len(rs) = 1 THEN [raised |-> NoError, ret |-> rs[1], heap |-> hp]
    ELSE IF Len(rs) = 0
         THEN [raised |-> [kind |-> "IndexError", job_id |-> None, cause |-> "results[0]"],
               ret |-> None, heap |-> hp]
         ELSE [raised |-> NoError, ret |-> rs[1], heap |-> ExtendFrom(hp, rs[1], rs, 2)]

\* _combine_result_objects(results): rs is the list of Result objects (heap
\* indices), hp the heap.  Returns the object returned, or what was raised,
\* and the heap afterwards; a deep copy is a new heap object.
CombineResultObjects(rs, hp) ==
    IF Len(rs) = 1 THEN [raised |-> NoError, ret |-> rs[1], heap |-> hp]
    ELSE IF Len(rs) = 0
         THEN [raised |-> [kind |-> "IndexError", job_id |-> None, cause |-> "results[0]"],
               ret |-> None, heap |-> hp]
         ELSE LET new == Len(hp) + 1
              IN [raised |-> NoError, ret |-> new,
                  heap |-> ExtendFrom(Append(hp, hp[rs[1]]), new, rs, 2)]

\* ---- a faulty variant of run_qobj's combine step, which C5 must tell from it
CombineStepUnguarded(rs, hp) == CombineResultObjects(rs, hp)

\* result = _combine_result_objects(results) if results else None
CombineStep(rs, hp) ==
    IF rs # <<>> THEN CombineResultObjects(rs, hp)
    ELSE [raised |-> NoError, ret |-> None, heap |-> hp]

\* ------------------------------------------------------------------ state

VARIABLES
    batch,          \* the qobj run_qobj was called with (kept for the properties)
    backend,        \* the backend argument: [valid, simulator, local, max_experiments]
    env,            \* MAX_CIRCUITS_PER_JOB: None or the configured chunk size
    job_callback,   \* whether a job_callback was passed
    pc,             \* where run_qobj is
    err,            \* the exception that left run_qobj (pc = "raised")
    qobj,           \* run_qobj's qobj: the argument, from line 270 on the qobj read back
    qobjs,          \* the chunks
    jobs, job_ids,  \* one job handle and one job id per chunk
    idx,            \* the chunk the recovery loop is at (0-based, as in the source)
    job, job_id,    \* the job handle and id in hand
    job_status,     \* what _safe_get_job_status returned last
    queue_position,
    results,        \* the Result objects captured so far (heap indices)
    result,         \* what run_qobj returns (pc = "done"): a heap index or None
    heap,           \* the Result objects: [success, results (the records)]
    nobj, nuuid,    \* qobj objects and uuid4 identifiers made so far
    submitted,      \* backend: the qobj of every job run, by job id
    nh,             \* backend: job handles handed out so far
    nfail, waited,  \* the running status probe: JobError failures, time slept
    reported,       \* the status the last successful job.status() gave
    status_failure, \* how job.status() or job.queue_position() failed last in this poll, or "none"
    resub,          \* re-submissions (returns of the guard in recovery) per chunk
    fetched,        \* the last job.result() that returned: [h, jid, success]
    cb              \* the last job_callback call: [n, job_id, status, queue_position, job]

vars == <<batch, backend, env, job_callback, pc, err, qobj, qobjs, jobs, job_ids, idx,
          job, job_id, job_status, queue_position, results, result, heap, nobj, nuuid,
          submitted, nh, nfail, waited, reported, status_failure, resub, fetched, cb>>

config == <<batch, backend, env, job_callback>>

NoBackend == [valid |-> FALSE, simulator |-> FALSE, local |-> FALSE, max_experiments |-> 1]
LocalSimulator == [valid |-> TRUE, simulator |-> TRUE, local |-> TRUE, max_experiments |-> 1]
RemoteBackends(maxk) ==
    {[valid |-> TRUE, simulator |-> s, local |-> FALSE, max_experiments |-> k] :
        s \in BOOLEAN, k \in 1..maxk}
Backends == {NoBackend, LocalSimulator} \cup RemoteBackends(MaxChunk)

\* ---- a faulty variant: the jobs of a simulator are polled and recovered too
AlwaysRecover == TRUE

\* with_autorecover = not is_simulator_backend(backend)
with_autorecover == ~backend.simulator

\* max_circuits_per_job of run_qobj
max_circuits_per_job ==
    IF env # None THEN env
    ELSE IF backend.local THEN SysMaxSize
    ELSE backend.max_experiments

\* The records a job's Result carries: one per experiment of the qobj the job
\* was run with, in order, each naming its experiment and its job.
RecordsOf(jid) ==
    [i \in 1..Len(submitted[jid].experiments) |->
        [item |-> submitted[jid].experiments[i], jid |-> jid]]

NoFetch == [h |-> None, jid |-> None, success |-> TRUE]
NoCallback == [n |-> 0, job_id |-> None, status |-> "none", queue_position |-> 0, job |-> NoJob]

\* What every specification starts from, the configuration and pc aside.
InitLocals ==
    /\ err = NoError
    /\ qobj = batch
    /\ qobjs = <<>>
    /\ jobs = <<>> /\ job_ids = <<>>
    /\ idx = 0
    /\ job = NoJob /\ job_id = None
    /\ job_status = "none"
    /\ queue_position = 0
    /\ results = <<>>
    /\ result = None
    /\ heap = <<>>
    /\ nobj = 0 /\ nuuid = 0
    /\ submitted = <<>>
    /\ nh = 0
    /\ nfail = 0 /\ waited = 0
    /\ reported = "none"
    /\ status_failure = "none"
    /\ resub = <<>>
    /\ fetched = NoFetch
    /\ cb = NoCallback

\* run_qobj is called: any backend, any batch of up to MaxItems experiments, and
\* the 10 experiments with chunk size 4, and the 100 experiments on a local
\* simulator, of the end-to-end scenarios.
Init ==
    /\ \/ /\ batch \in {MkBatch(k, m) : k \in {"QasmQobj", "PulseQobj"}, m \in 0..MaxItems}
          /\ backend \in Backends
          /\ env \in {None} \cup 1..MaxChunk
       \/ /\ batch = MkBatch("QasmQobj", 10)
          /\ backend \in RemoteBackends(1)
          /\ env = 4
       \/ /\ batch = MkBatch("QasmQobj", 100)
          /\ backend = LocalSimulator
          /\ env = None
    /\ job_callback \in BOOLEAN
    /\ pc = "start"
    /\ InitLocals

Raise(e) == pc' = "raised" /\ err' = e

\* ---- a faulty variant: what a backend call raises is wrapped in an AquaError
BackendErrorWrapped(op) == [kind |-> "AquaError", job_id |-> None, cause |-> op]

BackendError(op) == [kind |-> "BackendError", job_id |-> None, cause |-> op]

\* ------------------------------------------------- _safe_submit_qobj

\* ---- a faulty variant: a job id that cannot be read is raised to the caller
OnJobIdFailureRaises(retry, kind) == [pc |-> "raised", err |-> BackendError("job_id")]

\* except JobError / except Exception around job.job_id(): log, and go round
\* the while True again (retry is the place of run_on_backend).
OnJobIdFailure(retry, kind) == [pc |-> retry, err |-> NoError]

\* ---- a faulty variant: a failing run is retried like a failing job_id
OnRunFailureRetries(at) == [pc |-> at, err |-> NoError]

\* run_on_backend is called outside the try: what it raises leaves
\* _safe_submit_qobj and its caller.
OnRunFailure(at) == [pc |-> "raised", err |-> BackendError("run")]

\* job = run_on_backend(backend, qobj, ...): the backend runs q as a new job and
\* hands out a handle to it, or raises.
\* The backend makes at most MaxHandles job objects: an outcome after which the
\* chunk needs a further job object (a failed job.job_id(), a dead job, a result
\* without success) is taken only while there are objects left for it and for
\* the k - 1 chunks still to be run.
HandlesLeft(k) == nh + k <= MaxHandles

GuardRun(at, q, to) ==
    /\ pc = at
    /\ \/ /\ nh < MaxHandles
          /\ submitted' = Append(submitted, q)
          /\ nh' = nh + 1
          /\ job' = [h |-> nh + 1, jid |-> Len(submitted) + 1]
          /\ pc' = to
          /\ UNCHANGED err
       \/ /\ pc' = OnRunFailure(at).pc
          /\ err' = OnRunFailure(at).err
          /\ UNCHANGED <<submitted, nh, job>>

\* ------------------------------------------------- _safe_get_job_status

\* ---- faulty variants: no sleep after a JobError; an unknown failure retried
OnStatusFailureNoSleep(kind, jid, nf, w) ==
    IF kind = "JobError"
    THEN [pc |-> "status", err |-> NoError, nfail |-> nf + 1, waited |-> w]
    ELSE [pc |-> "raised",
          err |-> [kind |-> "AquaError", job_id |-> jid, cause |-> kind],
          nfail |-> nf, waited |-> w]

OnStatusFailureRetriesAll(kind, jid, nf, w) ==
    [pc |-> "status", err |-> NoError, nfail |-> nf + 1, waited |-> w + ProbeDelay]

\* The two except clauses around job.status(): a JobError is logged, slept on
\* and retried; any other Exception is raised as an AquaError naming the job id
\* and the cause.
OnStatusFailure(kind, jid, nf, w) ==
    IF kind = "JobError"
    THEN [pc |-> "status", err |-> NoError, nfail |-> nf + 1, waited |-> w + ProbeDelay]
    ELSE [pc |-> "raised",
          err |-> [kind |-> "AquaError", job_id |-> jid, cause |-> kind],
          nfail |-> nf, waited |-> w]

\* ---- a faulty variant: a dead job's result is fetched like a finished one's
AfterFinalFetchesAlways(status) == "result"

\* ---- a faulty variant: after a final status the job is polled again
AfterFinalPollsAgain(status) == "status"

\* if job_status == JobStatus.DONE: fetch the result; otherwise re-submit
AfterFinal(status) == IF status = "DONE" THEN "result" ELSE "qobj"

\* The place after the submission loop: the recovery loop of the first job,
\* the direct fetches, or, with no job at all, the combine step.
Gather(js) ==
    IF js = <<>> THEN "combine"
    ELSE IF with_autorecover THEN "status" ELSE "sim_result"

\* ------------------------------------------------------------- run_qobj

\* if backend is None or not isinstance(backend, BaseBackend): raise ValueError
CheckBackend ==
    /\ pc = "start"
    /\ IF backend.valid
       THEN pc' = "split" /\ UNCHANGED err
       ELSE Raise([kind |-> "ValueError", job_id |-> None, cause |-> "invalid backend"])
    /\ UNCHANGED <<config, qobj, qobjs, jobs, job_ids, idx, job, job_id, job_status,
                   queue_position, results, result, fetched, heap, nobj, nuuid, submitted, nh,
                   nfail, waited, reported, status_failure, resub, cb>>

\* qobjs = _split_qobj_to_qobjs(qobj, max_circuits_per_job); jobs = []; job_ids = []
Split ==
    /\ pc = "split"
    /\ LET r == SplitQobjToQobjs(qobj, max_circuits_per_job, nobj, nuuid)
       IN IF r.raised # NoError
          THEN Raise(r.raised) /\ UNCHANGED <<qobjs, nobj, nuuid, resub>>
          ELSE /\ qobjs' = r.qobjs
               /\ nobj' = r.nobj
               /\ nuuid' = r.nuuid
               /\ resub' = [i \in 1..Len(r.qobjs) |-> 0]
               /\ pc' = IF r.qobjs = <<>> THEN Gather(<<>>) ELSE "submit_run"
               /\ UNCHANGED err
    /\ UNCHANGED <<config, qobj, jobs, job_ids, idx, job, job_id, job_status,
                   queue_position, results, result, fetched, heap, submitted, nh,
                   nfail, waited, reported, status_failure, cb>>

\* for qob in qobjs: _safe_submit_qobj(qob, ...): run_on_backend
SubmitRun ==
    /\ GuardRun("submit_run", qobjs[Len(jobs) + 1], "submit_id")
    /\ UNCHANGED <<config, qobj, qobjs, jobs, job_ids, idx, job_id, job_status,
                   queue_position, results, result, fetched, heap, nobj, nuuid,
                   nfail, waited, reported, status_failure, resub, cb>>

\* ---- a faulty variant: the jobs are gathered as soon as one was run
AfterSubmitGathersAtOnce(js, n) == Gather(js)

\* for qob in qobjs: the next chunk is run, and after the last one the jobs
\* are gathered (js is jobs after the append, n is len(qobjs))
AfterSubmit(js, n) == IF Len(js) < n THEN "submit_run" ELSE Gather(js)

\* ... job_id = job.job_id() of _safe_submit_qobj in the for loop over qobjs;
\* on success job_ids.append(job_id); jobs.append(job)
SubmitJobId ==
    /\ pc = "submit_id"
    /\ \E out \in {"ok", "JobError", "Exception"} :
          /\ out # "ok" => HandlesLeft(Len(qobjs) - Len(jobs))
          /\ IF out = "ok"
             THEN /\ jobs' = Append(jobs, job)
                  /\ job_ids' = Append(job_ids, job.jid)
                  /\ pc' = AfterSubmit(jobs', Len(qobjs))
                  /\ IF pc' = "submit_run"
                     THEN job_id' = job.jid /\ UNCHANGED job
                     ELSE /\ job' = IF with_autorecover THEN jobs'[1] ELSE job
                          /\ job_id' = IF with_autorecover THEN job_ids'[1] ELSE job.jid
                  /\ UNCHANGED err
             ELSE /\ pc' = OnJobIdFailure("submit_run", out).pc
                  /\ err' = OnJobIdFailure("submit_run", out).err
                  /\ UNCHANGED <<jobs, job_ids, job, job_id>>
    /\ UNCHANGED <<config, qobj, qobjs, idx, job_status, queue_position, results, result, fetched,
                   heap, nobj, nuuid, submitted, nh, nfail, waited, reported, status_failure, resub, cb>>

\* job_status = _safe_get_job_status(job, job_id); queue_position = 0
GetStatus ==
    /\ pc = "status"
    /\ \E out \in JobStatus \cup {"JobError", "Exception"} :
          /\ out \in JOB_FINAL_STATES \ {"DONE"} => HandlesLeft(1)
          /\ IF out \in JobStatus
             THEN /\ job_status' = out
                  /\ reported' = out
                  /\ queue_position' = 0
                  /\ pc' = IF out \in JOB_FINAL_STATES THEN "final_callback"
                           ELSE IF out = "QUEUED" THEN "queue_position"
                           ELSE "callback"
                  /\ UNCHANGED <<err, nfail, waited, status_failure>>
             ELSE /\ out = "JobError" => nfail < MaxStatusFail
                  /\ status_failure' = out
                  /\ LET r == OnStatusFailure(out, job_id, nfail, waited)
                     IN pc' = r.pc /\ err' = r.err /\ nfail' = r.nfail /\ waited' = r.waited
                  /\ UNCHANGED <<job_status, reported, queue_position>>
    /\ UNCHANGED <<config, qobj, qobjs, jobs, job_ids, idx, job, job_id, results, result, fetched,
                   heap, nobj, nuuid, submitted, nh, resub, cb>>

\* ---- a faulty variant: no callback for a poll that found a final status
DoCallbackOnlyWhilePending ==
    cb' = IF job_callback /\ job_status \notin JOB_FINAL_STATES
          THEN [n |-> 1, job_id |-> job_id, status |-> job_status,
                queue_position |-> queue_position, job |-> job]
          ELSE cb

\* The call job_callback(job_id, job_status, queue_position, job), if there is one.
DoCallback ==
    cb' = IF job_callback
          THEN [n |-> 1, job_id |-> job_id, status |-> job_status,
                queue_position |-> queue_position, job |-> job]
          ELSE cb

\* if job_status in JOB_FINAL_STATES: the callback again, break, and the branch
\* on job_status == JobStatus.DONE
FinalCallback ==
    /\ pc = "final_callback"
    /\ DoCallback
    /\ pc' = AfterFinal(job_status)
    /\ nfail' = 0 /\ waited' = 0 /\ status_failure' = "none"
    /\ UNCHANGED <<config, err, qobj, qobjs, jobs, job_ids, idx, job, job_id, job_status,
                   queue_position, results, result, fetched, heap, nobj, nuuid, submitted, nh,
                   reported, resub>>

\* ---- a faulty variant: a queue position that cannot be read is taken as 0
OnQueuePositionFailureIgnored == [pc |-> "callback", err |-> NoError]

\* job.queue_position() is under no try: what it raises leaves run_qobj
OnQueuePositionFailure ==
    [pc |-> "raised", err |-> BackendError("queue_position")]

\* if job_status == JobStatus.QUEUED: queue_position = job.queue_position()
QueuePosition ==
    /\ pc = "queue_position"
    /\ \/ /\ \E p \in 0..MaxQueuePos : queue_position' = p
          /\ pc' = "callback"
          /\ UNCHANGED err
          /\ status_failure' = "none"
       \/ /\ pc' = OnQueuePositionFailure.pc
          /\ err' = OnQueuePositionFailure.err
          /\ status_failure' = "queue_position"
          /\ UNCHANGED queue_position
    /\ nfail' = 0 /\ waited' = 0
    /\ UNCHANGED <<config, qobj, qobjs, jobs, job_ids, idx, job, job_id, job_status,
                   results, result, fetched, heap, nobj, nuuid, submitted, nh, reported, resub, cb>>

\* the callback of a poll, time.sleep(qjob_config['wait']), and round again
Callback ==
    /\ pc = "callback"
    /\ DoCallback
    /\ pc' = "status"
    /\ nfail' = 0 /\ waited' = 0 /\ status_failure' = "none"
    /\ UNCHANGED <<config, err, qobj, qobjs, jobs, job_ids, idx, job, job_id, job_status,
                   queue_position, results, result, fetched, heap, nobj, nuuid, submitted, nh,
                   reported, resub>>

\* The Result object a job's result() hands back: a new heap object.
NewResult(jid, success) == [success |-> success, results |-> RecordsOf(jid)]

\* ---- faulty variants: the loops of a job are not left after its result was
\* appended; the next job taken is the first again
AfterCaptureStays(i, n) == [pc |-> "status", idx |-> i]

AfterCaptureStartsOver(i, n) ==
    IF i + 1 < n THEN [pc |-> "status", idx |-> 0] ELSE [pc |-> "combine", idx |-> i]

\* results.append(result); break; break: the for loop takes the next job, if
\* there is one (i is idx, n is len(jobs)).
AfterCapture(i, n) ==
    IF i + 1 < n THEN [pc |-> "status", idx |-> i + 1] ELSE [pc |-> "combine", idx |-> i]

\* ---- a faulty variant: a result without success makes the chunk be re-submitted
AfterFailedResultResubmits == "qobj"

\* a result without success: job = backend.retrieve_job(job_id), and
\* job.result() again
AfterFailedResult == "retrieve"

\* result = job.result(**qjob_config); if result.success: results.append(result)
\* and both loops of this job are left; otherwise the job is retrieved again
GetResult ==
    /\ pc = "result"
    /\ \/ /\ heap' = Append(heap, NewResult(job.jid, TRUE))
          /\ results' = Append(results, Len(heap) + 1)
          /\ fetched' = [h |-> job.h, jid |-> job.jid, success |-> TRUE]
          /\ LET a == AfterCapture(idx, Len(jobs))
             IN /\ pc' = a.pc
                /\ idx' = a.idx
                /\ job' = IF a.pc = "status" THEN jobs[a.idx + 1] ELSE job
                /\ job_id' = IF a.pc = "status" THEN job_ids[a.idx + 1] ELSE job_id
          /\ UNCHANGED err
       \/ /\ HandlesLeft(1)
          /\ pc' = AfterFailedResult
          /\ fetched' = [h |-> job.h, jid |-> job.jid, success |-> FALSE]
          /\ UNCHANGED <<err, heap, results, idx, job, job_id>>
       \/ /\ Raise(BackendError("result"))
          /\ UNCHANGED <<heap, results, idx, job, job_id, fetched>>
    /\ UNCHANGED <<config, qobj, qobjs, jobs, job_ids, job_status, queue_position, result,
                   nobj, nuuid, submitted, nh, nfail, waited, reported, status_failure, resub, cb>>

\* job = backend.retrieve_job(job_id): a new handle to the same backend job
RetrieveJob ==
    /\ pc = "retrieve"
    /\ \/ /\ nh < MaxHandles
          /\ nh' = nh + 1
          /\ job' = [h |-> nh + 1, jid |-> job_id]
          /\ pc' = "result"
          /\ UNCHANGED err
       \/ /\ Raise(BackendError("retrieve_job"))
          /\ UNCHANGED <<nh, job>>
    /\ UNCHANGED <<config, qobj, qobjs, jobs, job_ids, idx, job_id, job_status,
                   queue_position, results, result, fetched, heap, nobj, nuuid, submitted,
                   nfail, waited, reported, status_failure, resub, cb>>

\* ---- a faulty variant: the qobj read back from a job gets a new qobj_id
QobjOfWithNewId(jid) == [submitted[jid] EXCEPT !.qobj_id = nuuid + Len(submitted) + 1]

\* job.qobj() of the job with id jid: the qobj it was run with, qobj_id included
QobjOf(jid) == submitted[jid]

\* qobj = job.qobj(): the qobj the job was run with
ReadQobj ==
    /\ pc = "qobj"
    /\ \/ /\ qobj' = QobjOf(job.jid)
          /\ pc' = IF job_status = "CANCELLED" THEN "resubmit_run"
                   ELSE IF job_status = "ERROR" THEN "error_message"
                   ELSE "resubmit_run"
          /\ UNCHANGED err
       \/ /\ Raise(BackendError("qobj"))
          /\ UNCHANGED qobj
    /\ UNCHANGED <<config, qobjs, jobs, job_ids, idx, job, job_id, job_status,
                   queue_position, results, result, fetched, heap, nobj, nuuid, submitted, nh,
                   nfail, waited, reported, status_failure, resub, cb>>

\* elif job_status == JobStatus.ERROR: the warning reads job.error_message()
ErrorMessage ==
    /\ pc = "error_message"
    /\ \/ pc' = "resubmit_run" /\ UNCHANGED err
       \/ Raise(BackendError("error_message"))
    /\ UNCHANGED <<config, qobj, qobjs, jobs, job_ids, idx, job, job_id, job_status,
                   queue_position, results, result, fetched, heap, nobj, nuuid, submitted, nh,
                   nfail, waited, reported, status_failure, resub, cb>>

\* job, job_id = _safe_submit_qobj(qobj, ...): run_on_backend
ResubmitRun ==
    /\ GuardRun("resubmit_run", qobj, "resubmit_id")
    /\ UNCHANGED <<config, qobj, qobjs, jobs, job_ids, idx, job_id, job_status,
                   queue_position, results, result, fetched, heap, nobj, nuuid,
                   nfail, waited, reported, status_failure, resub, cb>>

\* ... job_id = job.job_id(); on success jobs[idx] = job; job_ids[idx] = job_id
\* and the outer while True goes round
ResubmitJobId ==
    /\ pc = "resubmit_id"
    /\ \E out \in {"ok", "JobError", "Exception"} :
          /\ out # "ok" => HandlesLeft(1)
          /\ IF out = "ok"
             THEN /\ job_id' = job.jid
                  /\ jobs' = [jobs EXCEPT ![idx + 1] = job]
                  /\ job_ids' = [job_ids EXCEPT ![idx + 1] = job.jid]
                  /\ resub' = [resub EXCEPT ![idx + 1] = @ + 1]
                  /\ pc' = "status"
                  /\ UNCHANGED err
             ELSE /\ pc' = OnJobIdFailure("resubmit_run", out).pc
                  /\ err' = OnJobIdFailure("resubmit_run", out).err
                  /\ UNCHANGED <<jobs, job_ids, job_id, resub>>
    /\ UNCHANGED <<config, qobj, qobjs, idx, job, job_status, queue_position, results,
                   result, fetched, heap, nobj, nuuid, submitted, nh, nfail, waited, reported, status_failure, cb>>

\* else: for job in jobs: results.append(job.result(**qjob_config))
SimResult ==
    /\ pc = "sim_result"
    /\ \/ /\ \E success \in BOOLEAN :
                /\ heap' = Append(heap, NewResult(jobs[Len(results) + 1].jid, success))
                /\ fetched' = [h |-> jobs[Len(results) + 1].h, jid |-> jobs[Len(results) + 1].jid,
                               success |-> success]
          /\ results' = Append(results, Len(heap) + 1)
          /\ job' = jobs[Len(results) + 1]
          /\ pc' = IF Len(results') < Len(jobs) THEN "sim_result" ELSE "combine"
          /\ UNCHANGED err
       \/ /\ Raise(BackendError("result"))
          /\ UNCHANGED <<heap, results, job, fetched>>
    /\ UNCHANGED <<config, qobj, qobjs, jobs, job_ids, idx, job_id, job_status,
                   queue_position, result, nobj, nuuid, submitted, nh, nfail, waited,
                   reported, status_failure, resub, cb>>

\* result = _combine_result_objects(results) if results else None; return result
Combine ==
    /\ pc = "combine"
    /\ LET r == CombineStep(results, heap)
       IN IF r.raised # NoError
          THEN Raise(r.raised) /\ UNCHANGED <<result, heap>>
          ELSE result' = r.ret /\ heap' = r.heap /\ pc' = "done" /\ UNCHANGED err
    /\ UNCHANGED <<config, fetched, qobj, qobjs, jobs, job_ids, idx, job, job_id, job_status,
                   queue_position, results, nobj, nuuid, submitted, nh, nfail, waited,
                   reported, status_failure, resub, cb>>

Next ==
    \/ CheckBackend
    \/ Split
    \/ SubmitRun
    \/ SubmitJobId
    \/ GetStatus
    \/ FinalCallback
    \/ QueuePosition
    \/ Callback
    \/ GetResult
    \/ RetrieveJob
    \/ ReadQobj
    \/ ErrorMessage
    \/ ResubmitRun
    \/ ResubmitJobId
    \/ SimResult
    \/ Combine

Spec == Init /\ [][Next]_vars

\* The backend under which run_qobj is meant to come to an end: a run of a
\* chunk again and again gives a job whose id can be read (lines 135-147), a
\* job polled again and again is found in a final status and, with a chunk run
\* often enough, DONE (line 237), and the result of a job fetched again and
\* again has success (line 256).  run_qobj itself always takes its next step.
Fairness ==
    /\ WF_vars(Next)
    /\ SF_vars(SubmitJobId /\ jobs' # jobs)
    /\ SF_vars(ResubmitJobId /\ pc' = "status")
    /\ SF_vars(GetStatus /\ pc' = "final_callback")
    /\ SF_vars(GetStatus /\ pc' = "final_callback" /\ job_status' = "DONE")
    /\ SF_vars(GetResult /\ results' # results)

\* run_qobj is called with a job_callback and without MAX_CIRCUITS_PER_JOB, on
\* a local simulator or on a remote backend that is none.
InitLive ==
    /\ batch \in {MkBatch(k, m) : k \in {"QasmQobj", "PulseQobj"}, m \in 0..MaxItems}
    /\ backend \in {LocalSimulator} \cup
                   {b \in RemoteBackends(MaxChunk) : ~b.simulator}
    /\ env = None
    /\ job_callback = TRUE
    /\ pc = "start"
    /\ InitLocals

SpecLive == InitLive /\ [][Next]_vars /\ Fairness

\* ------------------------------------------- the chunker on its own

\* _split_qobj_to_qobjs is called with any batch of up to MaxSplitItems
\* experiments and any chunk size of 1 .. MaxSplitChunk.
InitChunk ==
    /\ batch \in {MkBatch(k, m) : k \in {"QasmQobj", "PulseQobj"}, m \in 0..MaxSplitItems}
    /\ backend = [valid |-> TRUE, simulator |-> FALSE, local |-> FALSE, max_experiments |-> 1]
    /\ env \in 1..MaxSplitChunk
    /\ job_callback = FALSE
    /\ pc = "split"
    /\ InitLocals

NextChunk == Split

SpecChunk == InitChunk /\ [][NextChunk]_vars

\* ------------------------------------------ the combiner on its own

\* The Result objects the combiner is tried on: object i carries up to
\* MaxRecords records, each naming its object.
ResultObject(i, n, success) ==
    [success |-> success, results |-> [k \in 1..n |-> [item |-> k, jid |-> i]]]

SeqsUpTo(S, n) == UNION {[1..k -> S] : k \in 0..n}

\* _combine_result_objects is called with any list of up to MaxResults Result
\* objects out of a heap of up to MaxResults (the same object may come twice).
InitCombine ==
    /\ batch = MkBatch("QasmQobj", 0)
    /\ backend = LocalSimulator
    /\ env = None
    /\ job_callback = FALSE
    /\ pc = "combine_fn"
    /\ err = NoError
    /\ qobj = batch
    /\ qobjs = <<>>
    /\ jobs = <<>> /\ job_ids = <<>>
    /\ idx = 0
    /\ job = NoJob /\ job_id = None
    /\ job_status = "none"
    /\ queue_position = 0
    /\ \E n \in 0..MaxResults :
          \E lens \in [1..n -> 0..MaxRecords], succ \in [1..n -> BOOLEAN] :
             /\ heap = [i \in 1..n |-> ResultObject(i, lens[i], succ[i])]
             /\ results \in SeqsUpTo(1..n, MaxResults)
    /\ result = None
    /\ nobj = 0 /\ nuuid = 0
    /\ submitted = <<>>
    /\ nh = 0
    /\ nfail = 0 /\ waited = 0
    /\ reported = "none"
    /\ status_failure = "none"
    /\ resub = <<>>
    /\ fetched = NoFetch
    /\ cb = NoCallback

\* _combine_result_objects(results), called directly
CombineApply ==
    /\ pc = "combine_fn"
    /\ LET r == CombineResultObjects(results, heap)
       IN IF r.raised # NoError
          THEN Raise(r.raised) /\ UNCHANGED <<result, heap>>
          ELSE result' = r.ret /\ heap' = r.heap /\ pc' = "returned" /\ UNCHANGED err
    /\ UNCHANGED <<config, fetched, qobj, qobjs, jobs, job_ids, idx, job, job_id, job_status,
                   queue_position, results, nobj, nuuid, submitted, nh, nfail, waited,
                   reported, status_failure, resub, cb>>

NextCombine == CombineApply

SpecCombine == InitCombine /\ [][NextCombine]_vars

\* ------------------------------------------------------------ properties

\* The concatenation of a sequence of sequences, in order.
RECURSIVE Flatten(_)
Flatten(ss) == IF ss = <<>> THEN <<>> ELSE Head(ss) \o Flatten(Tail(ss))

RECURSIVE SumLen(_)
SumLen(ss) == IF ss = <<>> THEN 0 ELSE Len(Head(ss)) + SumLen(Tail(ss))

ChunkItems == [i \in 1..Len(qobjs) |-> qobjs[i].experiments]
ChunkSizes == [i \in 1..Len(qobjs) |-> Len(qobjs[i].experiments)]

M == Len(batch.experiments)
K == max_circuits_per_job

\* _split_qobj_to_qobjs raised / returned
SplitRaised == pc = "raised" /\ err.kind = "AquaError" /\ err.cause = "Only support QasmQobj now."
AfterSplit == pc \notin {"start", "split"} /\ err.kind # "ValueError"
SplitReturned == AfterSplit /\ ~SplitRaised

\* C1: whenever the chunker returns, for a batch of M >= 0 items and a chunk
\* size K >= 1, it returns ceil(M / K) chunks (the least n with n * K >= M), each
\* of at most K items, their sizes summing to M and their item sequences
\* concatenated in chunk order being the batch's item sequence.
C1_ChunksCoverBatchInOrder ==
    SplitReturned =>
        /\ Len(qobjs) * K >= M
        /\ Len(qobjs) > 0 => (Len(qobjs) - 1) * K < M
        /\ \A i \in 1..Len(qobjs) : Len(qobjs[i].experiments) <= K
        /\ SumLen(ChunkItems) = M
        /\ Flatten(ChunkItems) = batch.experiments

\* 10 items with chunk size 4 were split into chunks of 4, 4 and 2 items.
C1_Witness ==
    SplitReturned /\ M = 10 /\ K = 4 /\ ChunkSizes = <<4, 4, 2>>

\* C2 as stated: for M <= K, M = 0 included, the chunker returns exactly one
\* chunk, the input batch itself.
C2_AsStated ==
    (AfterSplit /\ M <= K) => (SplitReturned /\ qobjs = <<batch>>)

\* C2: for 1 <= M <= K the chunker returns exactly one chunk, the input batch
\* itself (same object, same identifier, same items), whatever its kind; for
\* M = 0 it returns no chunk at all.
C2_SingleChunkIsTheBatch ==
    /\ (AfterSplit /\ 1 <= M /\ M <= K) => (SplitReturned /\ qobjs = <<batch>>)
    /\ (SplitReturned /\ M = 0) => qobjs = <<>>

\* A QasmQobj batch of at least one and at most K items came back as it was.
C2_Witness ==
    SplitReturned /\ batch.kind = "QasmQobj" /\ 1 <= M /\ M <= K /\ qobjs = <<batch>>

\* C3 as stated: a batch that is no QasmQobj makes the chunker fail, with no
\* chunk, for every M and K.
C3_AsStated ==
    (AfterSplit /\ batch.kind # "QasmQobj") => (SplitRaised /\ qobjs = <<>>)

\* C3: a batch that is no QasmQobj makes the chunker fail with the AquaError
\* "Only support QasmQobj now.", with no chunk, exactly when ceil(M / K) is not 1
\* (M = 0 or M > K); for 1 <= M <= K it is returned as the single chunk, its
\* kind unchecked.  A QasmQobj batch never fails.
C3_FailsOnlyWhenSlicing ==
    /\ (AfterSplit /\ batch.kind # "QasmQobj") =>
          IF M = 0 \/ M > K
          THEN SplitRaised /\ qobjs = <<>>
          ELSE SplitReturned /\ qobjs = <<batch>>
    /\ (AfterSplit /\ batch.kind = "QasmQobj") => SplitReturned

\* A batch of another kind with more than K items was rejected.
C3_Witness ==
    SplitRaised /\ batch.kind # "QasmQobj" /\ M > K /\ qobjs = <<>>

\* The record sequences of the Result objects rs, in order, on the heap hp.
RecordSeqs(rs, hp) == [i \in 1..Len(rs) |-> hp[rs[i]].results]

\* C4: _combine_result_objects on N >= 1 results returns an object whose record
\* sequence is the concatenation, in input order, of the inputs' record
\* sequences; for N = 1 it is the input object itself and nothing is changed; for
\* N >= 2 it is a new object and every object that was there keeps its records.
C4_CombineConcatenatesInOrder ==
    [][(pc = "combine_fn" /\ Len(results) >= 1) =>
          /\ pc' = "returned"
          /\ heap'[result'].results = Flatten(RecordSeqs(results, heap))
          /\ Len(results) = 1 => (result' = results[1] /\ heap' = heap)
          /\ Len(results) >= 2 =>
                /\ result' \notin DOMAIN heap
                /\ \A o \in DOMAIN heap : heap'[o] = heap[o]]_vars

\* Three results with records were combined into a fourth object.
C4_Witness ==
    /\ pc = "returned"
    /\ results = <<1, 2, 3>>
    /\ result = 4
    /\ \A i \in 1..3 : Len(heap[i].results) >= 1
    /\ heap[4].results = heap[1].results \o heap[2].results \o heap[3].results

\* C5 as stated: with zero chunk results at the combine step an error is raised
\* out of run_qobj, which returns nothing to its caller.
C5_AsStated ==
    [][(pc = "combine" /\ results = <<>>) => (pc' = "raised" /\ err' # NoError)]_vars

\* C5: with zero chunk results at the combine step, _combine_result_objects is
\* not called and run_qobj returns None to its caller, raising nothing and
\* making no object; this is so whenever the batch has no experiment and the
\* chunker returns.
C5_EmptyResultsReturnNone ==
    [][/\ (pc = "combine" /\ results = <<>>) =>
             (pc' = "done" /\ result' = None /\ err' = NoError /\ heap' = heap)
       /\ (pc = "split" /\ M = 0 /\ pc' # "raised") => (pc' = "combine" /\ results' = <<>>)]_vars

\* run_qobj returned None for a QasmQobj batch with no experiment.
C5_Witness ==
    pc = "done" /\ results = <<>> /\ result = None /\ err = NoError /\ M = 0

\* C6: whenever run_qobj returns a combined result, after any number of
\* re-submissions and re-fetches, there is one captured result per chunk, the
\* result of chunk i being the records of the job in slot i; the returned record
\* sequence is their concatenation in chunk-index order, and its record i is the
\* record of item i of the input batch.
C6_RecordsFollowItems ==
    (pc = "done" /\ result # None) =>
        /\ Len(results) = Len(qobjs)
        /\ \A i \in 1..Len(results) : heap[results[i]].results = RecordsOf(job_ids[i])
        /\ heap[result].results = Flatten(RecordSeqs(results, heap))
        /\ Len(heap[result].results) = M
        /\ \A i \in 1..M : heap[result].results[i].item = batch.experiments[i]

\* 10 items with chunk size 4: chunks of 4, 4 and 2 items, 3 submissions, and
\* 10 records in the order of the items.
C6_Witness ==
    /\ pc = "done"
    /\ M = 10 /\ K = 4
    /\ ChunkSizes = <<4, 4, 2>>
    /\ Len(submitted) = 3
    /\ [i \in 1..10 |-> heap[result].results[i].item] = batch.experiments

\* C7 as stated: no failure of the backend's run operation or of reading the
\* job id ever leaves run_qobj.
C7_AsStated ==
    ~(pc = "raised" /\ err.kind = "BackendError" /\ err.cause \in {"run", "job_id"})

\* C7: a failure to read the job id from the handle run returned, of any kind,
\* is never raised: _safe_submit_qobj calls run again, and it returns only a
\* handle together with the id read from that handle.  A failure of run itself
\* is not caught: it is raised out of _safe_submit_qobj and run_qobj, and
\* nothing was submitted by that call.
C7_GuardRetriesOnlyJobId ==
    [][/\ pc = "submit_id" =>
             /\ pc' # "raised" /\ err' = NoError
             /\ \/ pc' = "submit_run" /\ jobs' = jobs /\ job_ids' = job_ids
                \/ jobs' = Append(jobs, job) /\ job_ids' = Append(job_ids, job.jid)
       /\ pc = "resubmit_id" =>
             /\ pc' # "raised" /\ err' = NoError
             /\ \/ pc' = "resubmit_run" /\ jobs' = jobs /\ job_ids' = job_ids
                \/ pc' = "status" /\ jobs'[idx + 1] = job /\ job_ids'[idx + 1] = job.jid
       /\ pc \in {"submit_run", "resubmit_run"} =>
             \/ pc' = "raised" /\ err' = BackendError("run") /\ submitted' = submitted
             \/ /\ pc' = (IF pc = "submit_run" THEN "submit_id" ELSE "resubmit_id")
                /\ Len(submitted') = Len(submitted) + 1
                /\ job'.jid = Len(submitted')
       /\ \A i \in 1..Len(jobs) : job_ids[i] = jobs[i].jid]_vars

\* The id of the first job run could not be read; the chunk was run again and
\* the second job's handle and id were returned.
C7_Witness ==
    /\ Len(jobs) = 1 /\ Len(submitted) = 2
    /\ jobs[1].jid = 2 /\ job_ids[1] = 2
    /\ submitted[1] = submitted[2]
    /\ pc # "raised"

\* _safe_get_job_status has just returned.
ProbeReturned ==
    \/ pc \in {"final_callback", "queue_position"}
    \/ pc = "callback" /\ job_status # "QUEUED"

\* C8: if job.status() fails n >= 0 times in a row with a JobError and then
\* succeeds, _safe_get_job_status raises nothing, returns the status of the
\* successful query, and has slept 5 once after each of the n failures (n runs
\* up to MaxStatusFail here).
C8_ProbeSleepsPerJobError ==
    /\ pc = "status" => (err = NoError /\ waited = 5 * nfail)
    /\ ProbeReturned =>
          /\ err = NoError
          /\ job_status = reported
          /\ waited = 5 * nfail
          /\ status_failure = (IF nfail = 0 THEN "none" ELSE "JobError")

\* Three JobErrors, then the status came: 15 slept, nothing raised.
C8_Witness ==
    ProbeReturned /\ nfail = 3 /\ waited = 15 /\ job_status = "RUNNING" /\ err = NoError

\* C9: the first failure of job.status() that is no JobError ends run_qobj at
\* once with an AquaError naming the job id and the cause: no further query and
\* no sleep after it, no result captured for that chunk (the results are those
\* of the chunks before it), and the job in the chunk's slot is the one probed.
C9_UnknownStatusFailureIsFatal ==
    status_failure = "Exception" =>
        /\ pc = "raised"
        /\ err = [kind |-> "AquaError", job_id |-> job_id, cause |-> "Exception"]
        /\ waited = 5 * nfail
        /\ Len(results) = idx
        /\ job_id = job_ids[idx + 1]
        /\ job = jobs[idx + 1]

\* The probe of the second chunk's job failed with a JobError and then with
\* another failure, which was raised.
C9_Witness ==
    /\ status_failure = "Exception" /\ pc = "raised" /\ err.kind = "AquaError"
    /\ idx = 1 /\ nfail = 1 /\ Len(results) = 1

InJobLoop ==
    /\ with_autorecover
    /\ pc \in {"status", "final_callback", "queue_position", "callback", "result", "retrieve",
               "qobj", "error_message", "resubmit_run", "resubmit_id"}

\* C11: in recovery mode a result is appended to results only by a job.result()
\* of a job polled DONE that returned success, and that step leaves the loops of
\* the chunk: the next job is polled, or the results are combined.  The job at
\* work is always the one after the captured ones, so a captured chunk is never
\* polled, fetched or re-submitted again: its slot, its re-submission count and
\* its result stay as they are.  When the loop over the jobs is left there is
\* one successful result per chunk.
C11_CapturedChunkIsLeftAlone ==
    /\ [](/\ InJobLoop => (Len(results) = idx /\ idx < Len(jobs))
          /\ (with_autorecover /\ pc \in {"combine", "done"} /\ Len(qobjs) > 0) =>
                /\ Len(results) = Len(qobjs)
                /\ \A i \in 1..Len(results) : heap[results[i]].success)
    /\ [][/\ (with_autorecover /\ results' # results) =>
                /\ pc = "result" /\ job_status = "DONE"
                /\ fetched' = [h |-> job.h, jid |-> job_ids[idx + 1], success |-> TRUE]
                /\ results' = Append(results, Len(heap'))
                /\ heap'[Len(heap')].success
                /\ \/ pc' = "status" /\ idx' = idx + 1 /\ idx' < Len(jobs)
                   \/ pc' = "combine" /\ idx + 1 = Len(jobs)
          /\ \A i \in 1..Len(results) :
                /\ results'[i] = results[i]
                /\ jobs'[i] = jobs[i] /\ job_ids'[i] = job_ids[i]
                /\ resub'[i] = resub[i]]_vars

\* Two chunks: the first was captured from its first job, then the second was
\* re-submitted once and captured; both results are returned.
C11_Witness ==
    /\ pc = "done" /\ with_autorecover
    /\ Len(qobjs) = 2 /\ Len(results) = 2
    /\ resub = <<0, 1>>
    /\ job_ids = <<1, 3>>
    /\ heap[results[1]].results = RecordsOf(1)

C13_SimulatorOnlyFetches ==
    /\ []((backend.valid /\ backend.simulator) =>
            /\ pc \in {"start", "split", "submit_run", "submit_id", "sim_result", "combine",
                       "done", "raised"}
            /\ cb = NoCallback /\ job_status = "none" /\ reported = "none"
            /\ nfail = 0 /\ waited = 0
            /\ \A i \in 1..Len(resub) : resub[i] = 0
            /\ nh = Len(submitted)
            /\ \A i \in 1..Len(results) :
                    heap[results[i]].results = RecordsOf(job_ids[i])
            /\ (pc \in {"combine", "done"} /\ Len(qobjs) > 0) => Len(results) = Len(qobjs)
            /\ pc = "sim_result" => (Len(jobs) = Len(qobjs) /\ Len(results) < Len(jobs)))
    /\ [][(backend.valid /\ backend.simulator) =>
            /\ (pc = "sim_result" /\ pc' # "raised") =>
                  /\ results' = Append(results, Len(heap'))
                  /\ fetched' = [h |-> jobs[Len(results')].h, jid |-> job_ids[Len(results')],
                                 success |-> heap'[Len(heap')].success]
                  /\ pc' = IF Len(results') < Len(jobs) THEN "sim_result" ELSE "combine"
                  /\ submitted' = submitted /\ jobs' = jobs /\ job_ids' = job_ids
            /\ (fetched' # fetched \/ results' # results) => pc = "sim_result"
            /\ (pc = "combine" /\ pc' = "done" /\ results # <<>>) =>
                  heap'[result'].results = Flatten(RecordSeqs(results, heap))]_vars

\* The 100 experiments on the local simulator: one chunk, one job, one
\* job.result(), which came without success and is what run_qobj returns from.
C13_Witness ==
    /\ pc = "done" /\ backend = LocalSimulator
    /\ M = 100 /\ Len(qobjs) = 1
    /\ nh = 1 /\ Len(results) = 1
    /\ ~heap[results[1]].success
    /\ fetched = [h |-> 1, jid |-> 1, success |-> FALSE]
    /\ Len(heap[result].results) = 100

\* The backend and job calls of run_qobj that are under no try.
UnguardedCalls == {"run", "queue_position", "result", "retrieve_job", "qobj", "error_message"}

C15_AsStated ==
    ~(pc = "raised" /\ err.cause = "queue_position")

\* C15: job.queue_position() is called only after a poll that gave QUEUED.  If
\* it returns, its value is the queue position given to the callback of this
\* poll; if it raises, run_qobj raises the same, the callback is not called for
\* this poll, and nothing more is done: no position 0 is reported instead.
C15_QueuePositionFailureIsFatal ==
    /\ [](/\ status_failure = "queue_position" =>
                /\ pc = "raised" /\ job_status = "QUEUED"
                /\ err = [kind |-> "BackendError", job_id |-> None, cause |-> "queue_position"]
                /\ Len(results) = idx
                /\ result = None
          /\ pc = "queue_position" => (job_status = "QUEUED" /\ queue_position = 0))
    /\ [][/\ pc = "queue_position" =>
                \/ /\ pc' = "callback" /\ err' = NoError
                   /\ queue_position' \in 0..MaxQueuePos
                \/ /\ pc' = "raised" /\ status_failure' = "queue_position"
                   /\ cb' = cb /\ queue_position' = queue_position
          /\ (pc = "callback" /\ job_callback) =>
                /\ cb'.queue_position = queue_position
                /\ job_status # "QUEUED" => queue_position = 0]_vars

\* The first poll of the first job gave QUEUED and job.queue_position() raised:
\* run_qobj raised, and the callback that was given was never called.
C15_Witness ==
    /\ pc = "raised" /\ status_failure = "queue_position"
    /\ err = [kind |-> "BackendError", job_id |-> None, cause |-> "queue_position"]
    /\ job_callback /\ cb = NoCallback
    /\ job_status = "QUEUED" /\ idx = 0 /\ results = <<>>

\* The arguments job_callback gets for the job in the slot of the chunk at work.
CallbackArgs(status, position) ==
    [n |-> 1, job_id |-> job_ids[idx + 1], status |-> status,
     queue_position |-> position, job |-> jobs[idx + 1]]

C17_AsStated ==
    (with_autorecover /\ backend.valid /\ batch.kind = "QasmQobj" /\ M > 0) =>
        <>(\/ pc = "done" /\ result # None
           \/ pc = "raised" /\ err.cause \in {"run", "Exception"})

\* C17: on a backend that is fair in the sense of Fairness run_qobj does not
\* go on for ever: it returns, or it raises one of the errors of C14 (a status
\* query that failed with something else than a JobError, or a backend call
\* under no try that raised).  What it returns in recovery mode, for a batch of
\* one experiment or more, is one result with the records of every chunk.
C17_ReturnsOrRaises ==
    /\ <>(pc = "done" \/ pc = "raised")
    /\ []((pc = "done" /\ with_autorecover /\ M > 0) =>
            /\ result # None /\ err = NoError
            /\ Len(results) = Len(qobjs)
            /\ Len(heap[result].results) = M)

\* Two chunks, each run a second time after its first job died, and a result
\* that came without success on the way: run_qobj returned the combined result.
C17_Witness ==
    /\ pc = "done" /\ with_autorecover
    /\ Len(qobjs) = 2 /\ resub = <<1, 1>>
    /\ nh = 5 /\ Len(submitted) = 4
    /\ result # None /\ Len(heap[result].results) = M

\* C18: as long as a chunk is still to be run, or its job id still to be read,
\* no job was asked for its status, its queue position or its result, and
\* job_callback was not called; when run_qobj is at any of these calls, there
\* is one job and one job id per chunk, job i being one that was run with the
\* experiments of chunk i.
C18_AllJobsRunBeforeAnyPoll ==
    /\ (Len(jobs) < Len(qobjs) \/ pc \in {"start", "split", "submit_run", "submit_id"}) =>
          /\ job_status = "none" /\ reported = "none" /\ status_failure = "none"
          /\ nfail = 0 /\ waited = 0 /\ queue_position = 0
          /\ fetched = NoFetch /\ results = <<>> /\ heap = <<>>
          /\ cb = NoCallback
          /\ pc \in {"start", "split", "submit_run", "submit_id", "raised"}
    /\ (InJobLoop \/ pc \in {"sim_result", "combine", "done"}) =>
          /\ Len(jobs) = Len(qobjs) /\ Len(job_ids) = Len(qobjs)
          /\ Len(submitted) >= Len(qobjs)
          /\ \A i \in 1..Len(qobjs) :
                /\ jobs[i].jid = job_ids[i]
                /\ submitted[job_ids[i]].experiments = qobjs[i].experiments
    /\ pc \in {"submit_run", "submit_id"} => Len(jobs) < Len(qobjs)

\* Three chunks; the id of the second job could not be read at first, so four
\* jobs were run; all three slots are filled and the first status query is
\* about to be made.
C18_Witness ==
    /\ pc = "status" /\ idx = 0
    /\ Len(qobjs) = 3 /\ Len(jobs) = 3
    /\ job_ids = <<1, 3, 4>> /\ Len(submitted) = 4
    /\ job_status = "none" /\ cb = NoCallback /\ results = <<>>

\* The qobj_id of the qobjs given to run_on_backend, in the order of the runs.
SubmittedIds == [j \in 1..Len(submitted) |-> submitted[j].qobj_id]

\* C19 as stated: no two runs are given the same qobj_id.
C19_AsStated ==
    \A i, j \in 1..Len(submitted) : i # j => SubmittedIds[i] # SubmittedIds[j]

\* C19: the chunks of a batch split in two or more carry qobj_ids of their own
\* (uuid4), different from each other and from the batch's; a single chunk is
\* the batch, with the batch's qobj_id.  Nothing else makes a qobj_id: every
\* run is given one of these chunks as it is, so the run after a failed
\* job.job_id() and the run of job.qobj() after a job died carry the qobj_id
\* of the chunk again, the one the dead job's qobj carried.
C19_RunsCarryTheChunkId ==
    /\ [](/\ \A i, j \in 1..Len(qobjs) : i # j => qobjs[i].qobj_id # qobjs[j].qobj_id
          /\ \A i \in 1..Len(qobjs) :
                IF Len(qobjs) = 1 THEN qobjs[i].qobj_id = batch.qobj_id
                ELSE qobjs[i].qobj_id # batch.qobj_id
          /\ pc \notin {"start", "split"} =>
                nuuid = IF Len(qobjs) > 1 THEN Len(qobjs) ELSE 0
          /\ \A i \in 1..Len(job_ids) :
                /\ SubmittedIds[job_ids[i]] = qobjs[i].qobj_id
                /\ submitted[job_ids[i]].experiments = qobjs[i].experiments)
    /\ [][/\ (pc = "submit_run" /\ submitted' # submitted) =>
                submitted' = Append(submitted, qobjs[Len(jobs) + 1])
          /\ (pc = "resubmit_run" /\ submitted' # submitted) =>
                /\ submitted' = Append(submitted, qobj)
                /\ qobj.qobj_id = SubmittedIds[job_ids[idx + 1]]
                /\ qobj.qobj_id = qobjs[idx + 1].qobj_id
                /\ qobj.experiments = qobjs[idx + 1].experiments
          /\ submitted' # submitted => pc \in {"submit_run", "resubmit_run"}]_vars

\* Two chunks with the qobj_ids 1 and 2; the job of the second died and the
\* chunk was run again: the three runs carried the qobj_ids 1, 2 and 2.
C19_Witness ==
    /\ pc = "status" /\ idx = 1
    /\ Len(qobjs) = 2 /\ resub = <<0, 1>>
    /\ SubmittedIds = <<1, 2, 2>>
    /\ job_ids = <<1, 3>>

\* C20: in recovery mode the jobs are worked on one after the other, in the
\* order of the chunks: while run_qobj is in the loops of job idx, results
\* holds the results of the chunks before it, in their order and nothing
\* else, whatever happens to the job for however long; the chunks after it
\* have the job of their first run, which was never polled, fetched or run
\* again.  idx only ever moves to the next job, with the append of a result.
C20_ChunksAreRecoveredInOrder ==
    /\ [](InJobLoop =>
            /\ Len(results) = idx /\ idx < Len(jobs)
            /\ \A i \in 1..Len(results) :
                  /\ heap[results[i]].results = RecordsOf(job_ids[i])
                  /\ heap[results[i]].success
            /\ job_id = job_ids[idx + 1]
            /\ pc \notin {"resubmit_run", "resubmit_id"} => job.jid = job_ids[idx + 1]
            /\ \A j \in (idx + 2)..Len(jobs) :
                  /\ resub[j] = 0
                  /\ cb.job_id # job_ids[j] /\ fetched.jid # job_ids[j])
    /\ [][with_autorecover =>
            /\ idx' # idx =>
                  /\ idx' = idx + 1 /\ pc = "result" /\ pc' = "status"
                  /\ results' = Append(results, Len(heap'))
                  /\ job' = jobs[idx' + 1] /\ job_id' = job_ids[idx' + 1]
            /\ (InJobLoop /\ results' # results) =>
                  (idx' = idx + 1 \/ (pc' = "combine" /\ idx + 1 = Len(jobs)))
            /\ (InJobLoop /\ (resub' # resub \/ jobs' # jobs)) =>
                  /\ \A j \in 1..Len(jobs) : j # idx + 1 =>
                        (resub'[j] = resub[j] /\ jobs'[j] = jobs[j])]_vars

\* Three chunks: the first job died twice before the first result came, and
\* meanwhile nothing was asked of the other two; the second chunk is at its
\* first status query.
C20_Witness ==
    /\ pc = "status" /\ with_autorecover
    /\ Len(qobjs) = 3 /\ idx = 1
    /\ resub = <<2, 0, 0>>
    /\ job_ids = <<5, 2, 3>>
    /\ Len(results) = 1
    /\ job = jobs[2] /\ fetched.jid = 5

====
